---- MODULE Spec2Model ----
(***************************************************************************)
(* GoSpire rider app: the delivery / payment status workflow of the home   *)
(* screen (HomeScreen), the PayRex webhook, the realtime feed of the       *)
(* orders table, the QR expiry timer and the daily settlement aggregation. *)
(*                                                                         *)
(* A nullable value is a sequence of length 0 (null / undefined) or 1.     *)
(* An update payload is a record whose fields are the columns it writes.   *)
(***************************************************************************)
EXTENDS Integers, Sequences, FiniteSets, TLC

\* ---------------------------------------------------------------- bounds
Orders == {"o1", "o2"}
Riders == {"r1", "r2"}

\* realtime notifications in flight at once
MaxRT == 1
\* handleGenerateQR calls in flight at once
MaxGen == 2
\* calendar days a behaviour spans
MaxDay == 2
\* largest cod_amount
MaxAmount == 2

\* A QR time is kept as the number of clock ticks from now until it, 0 standing
\* for now or earlier: the code reads it only through expiry - now > 0 and
\* Math.max(0, expiry - now).  QrLife is the 5 minutes of a QR, in ticks.
QrLife == 1

NoUser == "none"
None == <<>>
Some(x) == <<x>>

VARIABLES
  db,              \* the orders table: order id -> row
  completedOn,     \* history: day on which status COMPLETED was last written
  writes,          \* history: the update payloads sent by the step just taken
  http,            \* history: the edge function call answered by the step just taken (nullable)
  intents,         \* orders with a PayRex payment intent that may still succeed
  rt,              \* realtime UPDATE notifications in flight to the home screen
  sub,             \* rider id the joined realtime channel is filtered on (nullable)
  user,            \* useAuth().user
  authLoading,     \* useAuth().loading
  route,           \* useSegments()[0]: "tabs" for (tabs); "" when there are no segments
  orders,          \* HomeScreen state: orders
  selectedOrder,   \* HomeScreen state: selectedOrder (nullable row)
  qrValue,         \* HomeScreen state: qrValue (nullable)
  qrExpiresAt,     \* HomeScreen state: qrExpiresAt (nullable time)
  qrTimeRemaining, \* HomeScreen state: qrTimeRemaining (nullable)
  loading,         \* HomeScreen state: loading
  activeTab,       \* HomeScreen state: activeTab
  timer,           \* qrTimerRef: nullable expiry captured by the running interval
  fetching,        \* rider ids of fetchOrders queries in flight
  upd,             \* updateOrderStatus awaiting its response (nullable)
  gen,             \* handleGenerateQR calls awaiting generate-qr
  pod,             \* handlePOD in progress (nullable)
  day,             \* today (local calendar day)
  statsReq,        \* fetchDailyStats awaiting its response (nullable)
  refreshing,      \* SettlementScreen state: refreshing
  dailyStats,      \* SettlementScreen state: dailyStats
  form,            \* SignUpScreen state: email, password, confirmPassword, fullName, phone
  signUpLoading,   \* SignUpScreen state: loading
  alert,           \* the Alert on the screen (nullable title and message)
  signUpCall,      \* signUp(...) awaiting its result (nullable arguments)
  permission,      \* the device's foreground location permission status
  capture,         \* the last captureCurrentLocation call (nullable)
  notifiedStatusRef, \* HomeScreen ref: the status keys (order id, status) notified
  statusPushes,    \* history: trip-started / arrival notifications sent, per key
  orderIdsRef,     \* HomeScreen ref: the order ids seen
  newOrderPushes   \* history: new-order toasts and notifications, per order id

dbVars == <<db, completedOn, intents>>
netVars == <<rt, sub>>
authVars == <<user, route, authLoading>>
qrVars == <<qrValue, qrExpiresAt, qrTimeRemaining, timer>>
uiVars == <<orders, selectedOrder, loading>>
opVars == <<fetching, upd, gen, pod>>
settleVars == <<day, statsReq, refreshing, dailyStats>>
signupVars == <<form, signUpLoading, alert, signUpCall>>
gpsVars == <<permission, capture>>
refVars == <<notifiedStatusRef, statusPushes>>
insertVars == <<orderIdsRef, newOrderPushes>>
vars ==
  <<dbVars, writes, http, netVars, authVars, qrVars, uiVars, opVars, settleVars, activeTab,
    signupVars, gpsVars, refVars, insertVars>>

\* ------------------------------------------------------------ the table
Statuses == {"PENDING", "EN_ROUTE", "ARRIVED", "PAID", "COMPLETED"}

\* The columns of a row that some code of the repository reads back.  The
\* other columns (cash_fallback_reason, delivery_latitude, ...) are only ever
\* written: they appear in the update payloads (writes), not in the table.
\* created_at is a day.
NewRow(o, r, amt, created) ==
  [id |-> o, rider_id |-> r, cod_amount |-> amt, status |-> "PENDING",
   payment_method |-> None, proof_url |-> None,
   qr_ph |-> None, qr_expires_at |-> None, created_at |-> created]

\* the columns of a fetched row that HomeScreen reads (list item)
Seen(row) ==
  [id |-> row.id, rider_id |-> row.rider_id, cod_amount |-> row.cod_amount,
   status |-> row.status, qr_ph |-> row.qr_ph, qr_expires_at |-> row.qr_expires_at]

\* the columns of selectedOrder and of a notified row that HomeScreen reads
Detail(row) ==
  [id |-> row.id, rider_id |-> row.rider_id, cod_amount |-> row.cod_amount,
   status |-> row.status]

\* supabase.from('orders').update(cols).eq('id', o): the row after the update
ApplyUpdate(row, cols) ==
  [f \in DOMAIN row |-> IF f \in DOMAIN cols THEN cols[f] ELSE row[f]]

\* The joined channel delivers the UPDATE of a row its filter matches; the
\* handler reads payload.new and whether payload.old.status differs from it.
Notify(q, old, new) ==
  IF sub = Some(new.rider_id)
  THEN Append(q, [changed |-> old.status # new.status, new |-> Detail(new)])
  ELSE q

\* One update call that succeeded (ok) or returned an error (not ok).
\* st = <<table, queue, payloads, completedOn>>
DoUpdate(st, o, cols, ok) ==
  LET t == st[1]
      new == ApplyUpdate(t[o], cols)
      done == "status" \in DOMAIN cols /\ cols.status = "COMPLETED"
  IN IF ok
     THEN <<[t EXCEPT ![o] = new],
            Notify(st[2], t[o], new),
            Append(st[3], [id |-> o, cols |-> cols]),
            IF done THEN [st[4] EXCEPT ![o] = Some(day)] ELSE st[4]>>
     ELSE st

Start == <<db, rt, <<>>, completedOn>>

\* the table, the notifications and the payloads after the updates of a step
Updated(st) ==
  /\ db' = st[1]
  /\ rt' = st[2]
  /\ writes' = st[3]
  /\ completedOn' = st[4]

\* ... of a step of the app
Commit(st) ==
  /\ Updated(st)
  /\ http' = None

\* a step of the app that sends no update
NoWrite ==
  /\ writes' = <<>>
  /\ http' = None
  /\ UNCHANGED <<db, completedOn>>

RtRoom(n) == Len(rt) + n <= MaxRT

\* ------------------------------------------------------ screen helpers
IsNull(x) == x = None

\* The effect on [qrExpiresAt, qrValue] (Object.is: a Date by identity, a URL
\* by value): when a dependency changed, the previous interval is cleared and
\* a new one is started only if both are set.  fresh says that qrExpiresAt got
\* a new Date object or qrValue the URL of a new payment intent.
TimerEffect(newValue, newExpiry, fresh) ==
  IF newValue # qrValue \/ fresh \/ newExpiry # qrExpiresAt
  THEN IF ~IsNull(newExpiry) /\ ~IsNull(newValue) THEN newExpiry ELSE None
  ELSE timer

\* setQrValue / setQrExpiresAt / setQrTimeRemaining followed by the render
SetQr(newValue, newExpiry, newRemaining, fresh) ==
  /\ qrValue' = newValue
  /\ qrExpiresAt' = newExpiry
  /\ qrTimeRemaining' = newRemaining
  /\ timer' = TimerEffect(newValue, newExpiry, fresh)

ClearQr == SetQr(None, None, None, FALSE)

\* fetchOrders() called from a closure that saw user u
FetchOrders(u) ==
  /\ orders' = IF u = NoUser THEN <<>> ELSE orders
  /\ fetching' = IF u = NoUser THEN fetching ELSE fetching \cup {u}

\* .eq('rider_id', u).order('created_at', {ascending: false}): every ordering
\* of the rider's rows that is descending in created_at
Fetched(u) ==
  LET ids == {o \in Orders : db[o].rider_id = u}
      n == Cardinality(ids)
  IN {s \in [1..n -> ids] :
        /\ \A i, j \in 1..n : i # j => s[i] # s[j]
        /\ \A i, j \in 1..n : i < j => db[s[i]].created_at >= db[s[j]].created_at}

Rows(s) == [i \in DOMAIN s |-> Seen(db[s[i]])]

Mounted == route = "tabs"
Busy == ~IsNull(upd) \/ gen # <<>> \/ ~IsNull(pod)

\* ------------------------------------------------------------------ auth
\* AuthContext: a rider signs in on the login screen
SignIn(r) ==
  /\ route = "login"
  /\ ~authLoading
  /\ user = NoUser
  /\ user' = r
  /\ NoWrite
  /\ UNCHANGED <<route, authLoading, intents, netVars, qrVars, uiVars, opVars, settleVars,
                 activeTab, signupVars, gpsVars, refVars, insertVars>>

\* Logout button of the list screen; the effect on [user?.id] re-subscribes
\* with the filter of no user
SignOut ==
  /\ Mounted
  /\ user # NoUser
  /\ IsNull(selectedOrder)
  /\ IsNull(pod)
  /\ ~Busy
  /\ user' = NoUser
  /\ sub' = None
  /\ rt' = <<>>
  /\ NoWrite
  /\ UNCHANGED <<route, authLoading, intents, qrVars, uiVars, opVars, settleVars,
                 activeTab, signupVars, gpsVars, refVars, insertVars>>

\* the routes of the Stack of the root layout, by first segment
Routes == {"tabs", "login", "signup", "modal"}

\* the sign-up form before anything is typed
EmptyForm ==
  [email |-> <<>>, password |-> <<>>, confirmPassword |-> <<>>, fullName |-> <<>>,
   phone |-> <<>>]

\* (tabs) is entered (HomeScreen is mounted: its effect fetches the orders and
\* subscribes) or left (it is unmounted); the sign-up screen is not shown
Enter(r) ==
  /\ route' = r
  /\ fetching' = IF r = "tabs" /\ user # NoUser THEN {user} ELSE {}
  /\ sub' = IF r = "tabs" /\ user # NoUser THEN Some(user) ELSE None
  /\ rt' = <<>>
  /\ orders' = <<>>
  /\ selectedOrder' = None
  /\ loading' = FALSE
  /\ activeTab' = "active"
  /\ qrValue' = None
  /\ qrExpiresAt' = None
  /\ qrTimeRemaining' = None
  /\ timer' = None
  /\ form' = EmptyForm
  /\ signUpLoading' = FALSE
  /\ notifiedStatusRef' = {}
  /\ orderIdsRef' = {}

\* the effect redirecting an authenticated user away from modal too
RedirectNoModal(u, isLoading, segment) ==
  IF isLoading THEN None
  ELSE LET inAuthGroup == segment = "tabs"
       IN IF u = NoUser /\ inAuthGroup THEN Some("login")
          ELSE IF u # NoUser /\ ~inAuthGroup THEN Some("tabs")
          ELSE IF u = NoUser /\ segment = "" THEN Some("login")
          ELSE None

\* the route the effect of RootLayoutNav replaces the current one with (null:
\* it does not redirect); segment is segments[0], "" when segments is empty
Redirect(u, isLoading, segment) ==
  IF isLoading THEN None
  ELSE LET inAuthGroup == segment = "tabs"
       IN IF u = NoUser /\ inAuthGroup THEN Some("login")
          ELSE IF u # NoUser /\ ~inAuthGroup /\ segment # "modal" THEN Some("tabs")
          ELSE IF u = NoUser /\ segment = "" THEN Some("login")
          ELSE None

\* RootLayoutNav effect: router.replace
LayoutRedirect ==
  /\ ~IsNull(Redirect(user, authLoading, route))
  /\ Enter(Redirect(user, authLoading, route)[1])
  /\ NoWrite
  /\ UNCHANGED <<user, authLoading, intents, upd, gen, pod, settleVars, alert, signUpCall,
                 gpsVars, statusPushes, newOrderPushes>>

\* AuthContext: the stored session has been looked up, u is its user
AuthLoaded(u) ==
  /\ authLoading
  /\ authLoading' = FALSE
  /\ user' = u
  /\ NoWrite
  /\ UNCHANGED <<route, intents, netVars, qrVars, uiVars, opVars, settleVars, activeTab,
                 signupVars, gpsVars, refVars, insertVars>>

\* a link or a deep link opens the sign-up screen or the modal
OpenRoute(r) ==
  /\ r \in {"signup", "modal"}
  /\ route # r
  /\ IsNull(alert)
  /\ Enter(r)
  /\ NoWrite
  /\ UNCHANGED <<user, authLoading, intents, upd, gen, pod, settleVars, alert, signUpCall,
                 gpsVars, statusPushes, newOrderPushes>>

\* --------------------------------------------------------- SignUpScreen
\* Texts are sequences of characters.  What can be typed into email, fullName
\* and phone: nothing or something
Names == {<<>>, <<"x">>}

\* ... and into password and confirmPassword: nothing, 5 characters, 6
\* characters, 6 other characters
Passwords ==
  {<<>>, <<"s", "e", "c", "r", "t">>, <<"s", "e", "c", "r", "e", "t">>,
   <<"z", "z", "z", "z", "z", "z">>}

Forms ==
  [email : Names, password : Passwords, confirmPassword : Passwords, fullName : Names,
   phone : Names]

\* Alert.alert(title, message)
Alert(title, message) == Some([title |-> title, message |-> message])

\* the screen takes input: it is shown, not loading (editable, disabled) and
\* no alert covers it
SignUpIdle == route = "signup" /\ ~signUpLoading /\ IsNull(alert)

\* onChangeText of the inputs
TypeForm(f) ==
  /\ SignUpIdle
  /\ form' = f
  /\ NoWrite
  /\ UNCHANGED <<intents, netVars, authVars, qrVars, uiVars, opVars, settleVars, activeTab,
                 signUpLoading, alert, signUpCall, gpsVars, refVars, insertVars>>

\* handleSignUp asking for more than 6 characters
HandleSignUpMoreThanSix ==
  /\ SignUpIdle
  /\ IF form.email = <<>> \/ form.password = <<>> \/ form.fullName = <<>> \/ form.phone = <<>>
     THEN /\ alert' = Alert("Error", "Please fill in all fields")
          /\ UNCHANGED <<signUpLoading, signUpCall>>
     ELSE IF form.password # form.confirmPassword
     THEN /\ alert' = Alert("Error", "Passwords do not match")
          /\ UNCHANGED <<signUpLoading, signUpCall>>
     ELSE IF Len(form.password) <= 6
     THEN /\ alert' = Alert("Error", "Password must be at least 6 characters")
          /\ UNCHANGED <<signUpLoading, signUpCall>>
     ELSE /\ signUpLoading' = TRUE
          /\ signUpCall' = Some([email |-> form.email, password |-> form.password,
                                 fullName |-> form.fullName, phone |-> form.phone])
          /\ alert' = alert
  /\ NoWrite
  /\ UNCHANGED <<intents, netVars, authVars, qrVars, uiVars, opVars, settleVars, activeTab,
                 form, gpsVars, refVars, insertVars>>

\* handleSignUp up to its await
HandleSignUp ==
  /\ SignUpIdle
  /\ IF form.email = <<>> \/ form.password = <<>> \/ form.fullName = <<>> \/ form.phone = <<>>
     THEN /\ alert' = Alert("Error", "Please fill in all fields")
          /\ UNCHANGED <<signUpLoading, signUpCall>>
     ELSE IF form.password # form.confirmPassword
     THEN /\ alert' = Alert("Error", "Passwords do not match")
          /\ UNCHANGED <<signUpLoading, signUpCall>>
     ELSE IF Len(form.password) < 6
     THEN /\ alert' = Alert("Error", "Password must be at least 6 characters")
          /\ UNCHANGED <<signUpLoading, signUpCall>>
     ELSE /\ signUpLoading' = TRUE
          /\ signUpCall' = Some([email |-> form.email, password |-> form.password,
                                 fullName |-> form.fullName, phone |-> form.phone])
          /\ alert' = alert
  /\ NoWrite
  /\ UNCHANGED <<intents, netVars, authVars, qrVars, uiVars, opVars, settleVars, activeTab,
                 form, gpsVars, refVars, insertVars>>

\* ... and what follows it: signUp answered with an error or without
HandleSignUpDone(error) ==
  /\ ~IsNull(signUpCall)
  /\ IsNull(alert)
  /\ signUpCall' = None
  /\ signUpLoading' = FALSE
  /\ alert' = IF error THEN Alert("Sign Up Failed", "Could not create account")
              ELSE Alert("Success!", "Account created successfully")
  /\ NoWrite
  /\ UNCHANGED <<intents, netVars, authVars, qrVars, uiVars, opVars, settleVars, activeTab,
                 form, gpsVars, refVars, insertVars>>

\* the button of the alert: OK of Success! does router.replace('/login')
DismissAlert ==
  /\ ~IsNull(alert)
  /\ alert' = None
  /\ IF alert[1].title = "Success!"
     THEN Enter("login")
     ELSE UNCHANGED <<route, netVars, qrVars, uiVars, activeTab, fetching, form,
                      signUpLoading, notifiedStatusRef, orderIdsRef>>
  /\ NoWrite
  /\ UNCHANGED <<user, authLoading, intents, upd, gen, pod, settleVars, signUpCall, gpsVars,
                 statusPushes, newOrderPushes>>

\* Already have an account? Sign In: router.back(), to the login screen
SignUpBack ==
  /\ SignUpIdle
  /\ Enter("login")
  /\ NoWrite
  /\ UNCHANGED <<user, authLoading, intents, upd, gen, pod, settleVars, alert, signUpCall,
                 gpsVars, statusPushes, newOrderPushes>>

\* ------------------------------------------------------------ the list
\* fetchOrders after its await
FetchOrdersDone(u, error) ==
  /\ Mounted
  /\ u \in fetching
  /\ fetching' = fetching \ {u}
  /\ IF error
     THEN UNCHANGED <<orders, orderIdsRef>>
     ELSE \E s \in Fetched(u) :
            /\ orders' = Rows(s)
            /\ orderIdsRef' = orderIdsRef \cup {s[i] : i \in DOMAIN s}
  /\ NoWrite
  /\ UNCHANGED <<selectedOrder, loading, intents, netVars, authVars, qrVars, upd, gen,
                 pod, settleVars, activeTab, signupVars, gpsVars, refVars, newOrderPushes>>

\* a button can be pressed: no camera or alert is open and the loading overlay,
\* which covers the screen, is not shown
CanPress == Mounted /\ user # NoUser /\ IsNull(pod) /\ ~loading

\* the filter of both tabs ignoring activeTab
ShownNotCompleted(order, tab) == order.status # "COMPLETED"

\* the callback of orders.filter
Shown(order, tab) ==
  IF tab = "active" THEN order.status # "COMPLETED" ELSE order.status = "COMPLETED"

\* list.filter(order => Shown(order, tab))
RECURSIVE Filter(_, _)
Filter(list, tab) ==
  IF list = <<>> THEN <<>>
  ELSE (IF Shown(Head(list), tab) THEN <<Head(list)>> ELSE <<>>) \o Filter(Tail(list), tab)

\* the rows of the FlatList
filteredOrders == Filter(orders, activeTab)

\* onPress of the Active / Completed tab
SetActiveTab(tab) ==
  /\ CanPress
  /\ IsNull(selectedOrder)
  /\ activeTab' = tab
  /\ NoWrite
  /\ UNCHANGED <<intents, netVars, authVars, qrVars, uiVars, opVars, settleVars,
                 signupVars, gpsVars, refVars, insertVars>>

\* onPress of a list item: open the detail view, reload an unexpired QR
SelectOrder(i) ==
  /\ CanPress
  /\ IsNull(selectedOrder)
  /\ i \in DOMAIN filteredOrders
  /\ LET item == filteredOrders[i]
         live == /\ ~IsNull(item.qr_ph)
                 /\ ~IsNull(item.qr_expires_at)
                 /\ item.qr_expires_at[1] > 0
     IN /\ selectedOrder' = Some(Detail(item))
        /\ IF live
           THEN SetQr(item.qr_ph, item.qr_expires_at, item.qr_expires_at, TRUE)
           ELSE ClearQr
  /\ NoWrite
  /\ UNCHANGED <<orders, loading, intents, netVars, authVars, opVars, settleVars,
                 activeTab, signupVars, gpsVars, refVars, insertVars>>

\* Back button of the detail view
Back ==
  /\ CanPress
  /\ ~IsNull(selectedOrder)
  /\ selectedOrder' = None
  /\ ClearQr
  /\ NoWrite
  /\ UNCHANGED <<orders, loading, intents, netVars, authVars, opVars, settleVars,
                 activeTab, signupVars, gpsVars, refVars, insertVars>>

\* ------------------------------------------------- updateOrderStatus
\* the status the button of the detail view asks for
NextStatus(s) ==
  IF s = "PENDING" THEN Some("EN_ROUTE")
  ELSE IF s = "EN_ROUTE" THEN Some("ARRIVED")
  ELSE None

\* no toast and no notification of a new order yet
NoPushes == [toast |-> 0, notification |-> 0]

\* `${orderId}_${status}` for the two statuses that are notified once
StatusKeys == Orders \X {"EN_ROUTE", "ARRIVED"}

\* the notification sent without recording its key in notifiedStatusRef
NotifyStatusUnrecorded(o, status) ==
  IF <<o, status>> \in StatusKeys /\ <<o, status>> \notin notifiedStatusRef
  THEN /\ statusPushes' = [statusPushes EXCEPT ![<<o, status>>] = @ + 1]
       /\ notifiedStatusRef' = notifiedStatusRef
  ELSE UNCHANGED <<notifiedStatusRef, statusPushes>>

\* if (!orderStatuses.has(statusKey)) { await notifyTripStarted / notifyArrival;
\* orderStatuses.add(statusKey); notifiedStatusRef.current.set(...) }.
\* notifyTripStarted and notifyArrival resolve without any I/O
\* (scheduleLocalNotification only logs), so what follows the await runs before
\* any other response or notification is handled.
NotifyStatus(o, status) ==
  IF <<o, status>> \in StatusKeys /\ <<o, status>> \notin notifiedStatusRef
  THEN /\ statusPushes' = [statusPushes EXCEPT ![<<o, status>>] = @ + 1]
       /\ notifiedStatusRef' = notifiedStatusRef \cup {<<o, status>>}
  ELSE UNCHANGED <<notifiedStatusRef, statusPushes>>

\* Start Delivery / I Have Arrived: the update call
UpdateOrderStatusCall(ok) ==
  /\ CanPress
  /\ ~IsNull(selectedOrder)
  /\ IsNull(upd)
  /\ ~IsNull(NextStatus(selectedOrder[1].status))
  /\ RtRoom(1)
  /\ LET o == selectedOrder[1].id
         s == NextStatus(selectedOrder[1].status)[1]
     IN /\ Commit(DoUpdate(Start, o, [status |-> s], ok))
        /\ upd' = Some([id |-> o, status |-> s, ok |-> ok])
  /\ UNCHANGED <<intents, sub, authVars, qrVars, uiVars, fetching, gen, pod, settleVars,
                 activeTab, signupVars, gpsVars, refVars, insertVars>>

\* ... and what follows its await
UpdateOrderStatusDone ==
  /\ Mounted
  /\ ~IsNull(upd)
  /\ upd' = None
  /\ IF upd[1].ok
     THEN /\ NotifyStatus(upd[1].id, upd[1].status)
          /\ selectedOrder' = IF IsNull(selectedOrder) THEN None
                              ELSE Some([selectedOrder[1] EXCEPT !.status = upd[1].status])
          /\ FetchOrders(user)
     ELSE UNCHANGED <<selectedOrder, orders, fetching, refVars, insertVars>>
  /\ NoWrite
  /\ UNCHANGED <<loading, intents, netVars, authVars, qrVars, gen, pod, settleVars,
                 activeTab, signupVars, gpsVars, insertVars>>

\* --------------------------------------------------- handleGenerateQR
\* mockQrUrl: api.qrserver.com URL of JSON {merchant, order_id, amount, ...};
\* the fallback URL of the generate-qr function is the same string
MockQr(o, amt) == [kind |-> "mock", order_id |-> o, amount |-> amt]

\* the QR image URL of a PayRex payment intent (a new URL for every intent)
PayrexQr(o) == [kind |-> "payrex", order_id |-> o]

\* the id of the PayRex payment intent made for order o
IntentId(o) == [payment_intent_of |-> o]

\* the update of the QR metadata also writing the status
QrMetadataWithStatus(url, expiry, intent) ==
  [status |-> "ARRIVED", qr_ph |-> Some(url), qr_generated_at |-> Some(0),
   payrex_payment_intent_id |-> intent]
  @@ (IF IsNull(expiry) THEN <<>> ELSE [qr_expires_at |-> expiry])

\* the update of the QR metadata: qr_ph, qr_generated_at (now),
\* payrex_payment_intent_id, and qr_expires_at unless it is undefined
QrMetadata(url, expiry, intent) ==
  [qr_ph |-> Some(url), qr_generated_at |-> Some(0),
   payrex_payment_intent_id |-> intent]
  @@ (IF IsNull(expiry) THEN <<>> ELSE [qr_expires_at |-> expiry])

\* what supabase.functions.invoke('generate-qr') can give back: the answer of
\* the handler without expires_at, the answers of the handler with it (PayRex
\* or fallback), an error, no data, data without qr_url, an exception
Outcomes == {"v1_ok", "v2_ok", "v2_fallback", "error", "empty", "no_qr_url", "throw"}

\* s without its i-th element
Drop(s, i) == [j \in 1..(Len(s) - 1) |-> IF j < i THEN s[j] ELSE s[j + 1]]

\* Generate / Refresh QR button: setLoading(true) and the invoke
GenerateQRCall ==
  /\ CanPress
  /\ ~IsNull(selectedOrder)
  /\ selectedOrder[1].status = "ARRIVED"
  /\ Len(gen) < MaxGen
  /\ loading' = TRUE
  /\ gen' = Append(gen, [id |-> selectedOrder[1].id,
                         amount |-> selectedOrder[1].cod_amount, auto |-> FALSE,
                         pc |-> "invoke"])
  /\ NoWrite
  /\ UNCHANGED <<orders, selectedOrder, intents, netVars, authVars, qrVars, fetching, upd,
                 pod, settleVars, activeTab, signupVars, gpsVars, refVars, insertVars>>

\* handleGenerateQR from the answer of generate-qr to its next await: the QR
\* of the screen and the update of the QR metadata (ok: the update succeeded);
\* after an exception that update is the last step of the call
GenerateQRDone(i, outcome, ok) ==
  /\ Mounted
  /\ i \in DOMAIN gen
  /\ gen[i].pc = "invoke"
  /\ RtRoom(1)
  /\ LET g == gen[i]
         o == g.id
         mock == MockQr(o, g.amount)
     IN \/ /\ outcome \in {"error", "empty", "no_qr_url", "throw"}
           /\ SetQr(Some(mock), Some(QrLife), Some(QrLife), TRUE)
           /\ Commit(DoUpdate(Start, o,
                  QrMetadata(mock, Some(QrLife),
                             IF outcome = "throw" THEN [mock_error |-> o]
                             ELSE [mock |-> o]), ok))
           /\ intents' = intents
        \/ /\ outcome \in {"v2_ok", "v2_fallback"}
           /\ LET url == IF outcome = "v2_ok" THEN PayrexQr(o) ELSE mock
              IN /\ SetQr(Some(url), Some(QrLife), Some(QrLife), TRUE)
                 /\ Commit(DoUpdate(Start, o,
                        QrMetadata(url, Some(QrLife),
                                   IF outcome = "v2_ok" THEN IntentId(o)
                                   ELSE [fallback |-> o]), ok))
           /\ intents' = IF outcome = "v2_ok" THEN intents \cup {o} ELSE intents
        \/ /\ outcome = "v1_ok"
           /\ SetQr(Some(PayrexQr(o)), qrExpiresAt, qrTimeRemaining, TRUE)
           /\ Commit(DoUpdate(Start, o, QrMetadata(PayrexQr(o), None, IntentId(o)), ok))
           /\ intents' = intents \cup {o}
  /\ IF outcome = "throw"
     THEN gen' = Drop(gen, i) /\ loading' = FALSE
     ELSE gen' = [gen EXCEPT ![i].pc = "update"] /\ loading' = loading
  /\ UNCHANGED <<orders, selectedOrder, sub, authVars, fetching, upd, pod, settleVars,
                 activeTab, signupVars, gpsVars, refVars, insertVars>>

\* ... and from there to its end: the key of ARRIVED is marked as notified, the
\* update of payment_method, setLoading(false)
GenerateQRSaved(i, ok) ==
  /\ Mounted
  /\ i \in DOMAIN gen
  /\ gen[i].pc = "update"
  /\ RtRoom(1)
  /\ notifiedStatusRef' = notifiedStatusRef \cup {<<gen[i].id, "ARRIVED">>}
  /\ Commit(DoUpdate(Start, gen[i].id, [payment_method |-> Some("QRPH")], ok))
  /\ gen' = Drop(gen, i)
  /\ loading' = FALSE
  /\ UNCHANGED <<orders, selectedOrder, intents, sub, authVars, qrVars, fetching, upd,
                 pod, settleVars, activeTab, signupVars, gpsVars, statusPushes, insertVars>>

\* ------------------------------------------------------ the QR timer
Max(a, b) == IF a >= b THEN a ELSE b

\* the setInterval callback of the QR timer effect
TimerFire ==
  /\ Mounted
  /\ ~IsNull(timer)
  /\ LET remaining == Max(0, timer[1])
     IN /\ qrTimeRemaining' = Some(remaining)
        /\ IF remaining = 0
           THEN /\ timer' = None
                /\ IF ~IsNull(selectedOrder)
                   THEN /\ Len(gen) < MaxGen
                        /\ loading' = TRUE
                        /\ gen' = Append(gen, [id |-> selectedOrder[1].id,
                                               amount |-> selectedOrder[1].cod_amount,
                                               auto |-> TRUE, pc |-> "invoke"])
                   ELSE UNCHANGED <<loading, gen>>
           ELSE UNCHANGED <<timer, loading, gen>>
  /\ NoWrite
  /\ UNCHANGED <<qrValue, qrExpiresAt, orders, selectedOrder, intents, netVars, authVars,
                 fetching, upd, pod, settleVars, activeTab, signupVars, gpsVars, refVars,
                 insertVars>>

\* one clock tick: every time kept anywhere is one tick nearer
Age(t) == IF IsNull(t) THEN None ELSE Some(Max(0, t[1] - 1))

AgeRow(row) == [row EXCEPT !.qr_expires_at = Age(@)]

Tick ==
  /\ db' = [o \in Orders |-> AgeRow(db[o])]
  /\ orders' = [i \in DOMAIN orders |-> AgeRow(orders[i])]
  /\ qrExpiresAt' = Age(qrExpiresAt)
  /\ timer' = Age(timer)
  /\ writes' = <<>>
  /\ http' = None
  /\ UNCHANGED <<completedOn, intents, netVars, authVars, qrValue, qrTimeRemaining,
                 selectedOrder, loading, opVars, settleVars, activeTab, signupVars, gpsVars,
                 refVars, insertVars>>

\* ------------------------------------------------ captureCurrentLocation
\* PermissionStatus of expo-location
PermissionStatuses == {"undetermined", "denied", "granted"}

Latitudes == {1, 2, 3}
Longitudes == {4, 5, 6}
\* coords.accuracy: number | null
Accuracies == {None, Some(0), Some(1)}

\* the LocationObject getCurrentPositionAsync resolves with
\* (coords.latitude, coords.longitude, coords.accuracy, timestamp)
Fixes ==
  [latitude : Latitudes, longitude : Longitudes, accuracy : Accuracies,
   timestamp : 1..MaxDay]

\* new Date(ms)
NewDate(ms) == [time |-> ms]

\* the DeliveryLocation returned for a fix; accuracy || undefined
DeliveryLocation(location) ==
  [latitude |-> location.latitude,
   longitude |-> location.longitude,
   timestamp |-> NewDate(location.timestamp),
   accuracy |-> IF IsNull(location.accuracy) \/ location.accuracy[1] = 0
                THEN None ELSE location.accuracy]

\* the call is at one of its awaits
Capturing == ~IsNull(capture) /\ capture[1].pc \notin {"returned", "threw"}

\* return of the DeliveryLocation made from the fix that was resolved
CaptureReturn(location) ==
  capture' = Some([capture[1] EXCEPT !.pc = "returned", !.fix = Some(location),
                                     !.result = Some(DeliveryLocation(location))])

\* catch (error) of captureCurrentLocation: return null
CaptureCatch(call) ==
  capture' = Some([capture[1] EXCEPT !.pc = "returned", !.result = None,
                                     !.rejected = Some(call)])

\* captureCurrentLocation is called
CaptureCurrentLocation ==
  /\ ~Capturing
  /\ capture' = Some([pc |-> "getForegroundPermissions", prompts |-> 0,
                      rejected |-> None, fix |-> None, result |-> None])
  /\ NoWrite
  /\ UNCHANGED <<intents, netVars, authVars, qrVars, uiVars, opVars, settleVars,
                 activeTab, signupVars, permission, refVars, insertVars>>

\* await Location.getForegroundPermissionsAsync(), and the test of status
GetForegroundPermissions(rejects) ==
  /\ Capturing
  /\ capture[1].pc = "getForegroundPermissions"
  /\ IF rejects
     THEN CaptureCatch("getForegroundPermissions")
     ELSE capture' =
            Some([capture[1] EXCEPT !.pc = IF permission # "granted"
                                           THEN "requestForegroundPermissions"
                                           ELSE "getCurrentPosition"])
  /\ NoWrite
  /\ UNCHANGED <<intents, netVars, authVars, qrVars, uiVars, opVars, settleVars,
                 activeTab, signupVars, permission, refVars, insertVars>>

\* what the permission prompt ends with: a status, or the call rejects
PromptAnswers == PermissionStatuses \cup {"rejects"}

\* requestLocationPermission()
requestLocationPermission(answer) == answer # "rejects" /\ answer = "granted"

\* await requestLocationPermission(): the prompt is shown, and answered
RequestPermission(answer) ==
  /\ Capturing
  /\ capture[1].pc = "requestForegroundPermissions"
  /\ permission' = IF answer = "rejects" THEN permission ELSE answer
  /\ LET prompted == [capture[1] EXCEPT !.prompts = @ + 1]
     IN  IF ~requestLocationPermission(answer)
         THEN capture' = Some([prompted EXCEPT !.pc = "returned", !.result = None])
         ELSE capture' = Some([prompted EXCEPT !.pc = "getCurrentPosition"])
  /\ NoWrite
  /\ UNCHANGED <<intents, netVars, authVars, qrVars, uiVars, opVars, settleVars,
                 activeTab, signupVars, refVars, insertVars>>

\* what getCurrentPositionAsync ends with: null stands for a rejection
Positions == {None} \cup {Some(f) : f \in Fixes}

\* a rejection of getCurrentPositionAsync leaving captureCurrentLocation
GetCurrentPositionUncaught(position) ==
  /\ Capturing
  /\ capture[1].pc = "getCurrentPosition"
  /\ IF IsNull(position)
     THEN capture' = Some([capture[1] EXCEPT !.pc = "threw",
                                             !.rejected = Some("getCurrentPosition")])
     ELSE CaptureReturn(position[1])
  /\ NoWrite
  /\ UNCHANGED <<intents, netVars, authVars, qrVars, uiVars, opVars, settleVars,
                 activeTab, signupVars, permission, refVars, insertVars>>

\* await Location.getCurrentPositionAsync(...), and the return
GetCurrentPosition(position) ==
  /\ Capturing
  /\ capture[1].pc = "getCurrentPosition"
  /\ IF IsNull(position)
     THEN CaptureCatch("getCurrentPosition")
     ELSE CaptureReturn(position[1])
  /\ NoWrite
  /\ UNCHANGED <<intents, netVars, authVars, qrVars, uiVars, opVars, settleVars,
                 activeTab, signupVars, permission, refVars, insertVars>>

Gps ==
  \/ CaptureCurrentLocation
  \/ \E rejects \in BOOLEAN : GetForegroundPermissions(rejects)
  \/ \E answer \in PromptAnswers : RequestPermission(answer)
  \/ \E position \in Positions : GetCurrentPosition(position)

\* ------------------------------------------------------------ handlePOD
Reasons == {"QR_PAYMENT_UNAVAILABLE", "CUSTOMER_REQUEST"}

\* the fix of the place of delivery
Here == [latitude |-> 1, longitude |-> 4, accuracy |-> Some(1), timestamp |-> 1]

\* captureCurrentLocation(): null or the DeliveryLocation of one fix
Locations == {None, Some(DeliveryLocation(Here))}

\* handlePOD up to launchCameraAsync
HandlePOD(o, paymentMethod, cashReason, location) ==
  pod' = Some([id |-> o, paymentMethod |-> paymentMethod, cashReason |-> cashReason,
               location |-> location, pc |-> "camera"])

\* the button calling handlePOD(id, 'CASH') without a reason
CashButtonNoReason(reason, location) ==
  /\ CanPress
  /\ ~IsNull(selectedOrder)
  /\ selectedOrder[1].status = "ARRIVED"
  /\ IsNull(qrValue)
  /\ HandlePOD(selectedOrder[1].id, "CASH", None, location)
  /\ NoWrite
  /\ UNCHANGED <<intents, netVars, authVars, qrVars, uiVars, fetching, upd, gen,
                 settleVars, activeTab, signupVars, gpsVars, refVars, insertVars>>

\* Customer Paid Cash -> one of the two reasons of the alert
CashButton(reason, location) ==
  /\ CanPress
  /\ ~IsNull(selectedOrder)
  /\ selectedOrder[1].status = "ARRIVED"
  /\ IsNull(qrValue)
  /\ HandlePOD(selectedOrder[1].id, "CASH", Some(reason), location)
  /\ NoWrite
  /\ UNCHANGED <<intents, netVars, authVars, qrVars, uiVars, fetching, upd, gen,
                 settleVars, activeTab, signupVars, gpsVars, refVars, insertVars>>

\* Simulate Payment Received: clears the QR, then handlePOD(id, 'QRPH')
SimulatePaymentButton(location) ==
  /\ CanPress
  /\ ~IsNull(selectedOrder)
  /\ selectedOrder[1].status = "ARRIVED"
  /\ ~IsNull(qrValue)
  /\ ClearQr
  /\ HandlePOD(selectedOrder[1].id, "QRPH", None, location)
  /\ NoWrite
  /\ UNCHANGED <<intents, netVars, authVars, uiVars, fetching, upd, gen, settleVars,
                 activeTab, signupVars, gpsVars, refVars, insertVars>>

\* Payment Failed? Switch to Cash -> Yes, Use Cash
SwitchToCashButton ==
  /\ CanPress
  /\ ~IsNull(selectedOrder)
  /\ selectedOrder[1].status = "ARRIVED"
  /\ ~IsNull(qrValue)
  /\ ClearQr
  /\ NoWrite
  /\ UNCHANGED <<intents, netVars, authVars, uiVars, opVars, settleVars, activeTab,
                 signupVars, gpsVars, refVars, insertVars>>

\* result.canceled: the Proof Required alert, and return
CameraCanceled ==
  /\ Mounted
  /\ ~IsNull(pod)
  /\ pod[1].pc = "camera"
  /\ pod' = Some([pod[1] EXCEPT !.pc = "alert"])
  /\ NoWrite
  /\ UNCHANGED <<intents, netVars, authVars, qrVars, uiVars, fetching, upd, gen,
                 settleVars, activeTab, signupVars, gpsVars, refVars, insertVars>>

\* Try Again calling handlePOD(orderId, paymentMethod), the reason forgotten
AlertTryAgainNoReason(location) ==
  /\ Mounted
  /\ ~IsNull(pod)
  /\ pod[1].pc = "alert"
  /\ HandlePOD(pod[1].id, pod[1].paymentMethod, None, location)
  /\ NoWrite
  /\ UNCHANGED <<intents, netVars, authVars, qrVars, uiVars, fetching, upd, gen,
                 settleVars, activeTab, signupVars, gpsVars, refVars, insertVars>>

\* Try Again: handlePOD(orderId, paymentMethod, cashReason)
AlertTryAgain(location) ==
  /\ Mounted
  /\ ~IsNull(pod)
  /\ pod[1].pc = "alert"
  /\ HandlePOD(pod[1].id, pod[1].paymentMethod, pod[1].cashReason, location)
  /\ NoWrite
  /\ UNCHANGED <<intents, netVars, authVars, qrVars, uiVars, fetching, upd, gen,
                 settleVars, activeTab, signupVars, gpsVars, refVars, insertVars>>

\* Cancel: setQrValue(null)
AlertCancel ==
  /\ Mounted
  /\ ~IsNull(pod)
  /\ pod[1].pc = "alert"
  /\ pod' = None
  /\ SetQr(None, qrExpiresAt, qrTimeRemaining, FALSE)
  /\ NoWrite
  /\ UNCHANGED <<intents, netVars, authVars, uiVars, fetching, upd, gen, settleVars,
                 activeTab, signupVars, gpsVars, refVars, insertVars>>

\* Date.prototype.toISOString()
ToISOString(date) == <<"ISO", date.time>>

\* updateData with the three delivery columns sent as null when there is no fix
UpdateDataNulls(proof, p) ==
  [status |-> "COMPLETED", proof_url |-> Some(proof),
   payment_method |-> Some(p.paymentMethod)]
  @@ (IF IsNull(p.location)
      THEN [delivery_latitude |-> None, delivery_longitude |-> None,
            delivery_timestamp |-> None]
      ELSE [delivery_latitude |-> Some(p.location[1].latitude),
            delivery_longitude |-> Some(p.location[1].longitude),
            delivery_timestamp |-> Some(ToISOString(p.location[1].timestamp))])
  @@ (IF p.paymentMethod = "CASH" /\ ~IsNull(p.cashReason)
      THEN [cash_fallback_reason |-> p.cashReason] ELSE <<>>)

\* updateData of handlePOD; an undefined value (location?.latitude of a null
\* location) is not sent
UpdateData(proof, p) ==
  [status |-> "COMPLETED", proof_url |-> Some(proof),
   payment_method |-> Some(p.paymentMethod)]
  @@ (IF IsNull(p.location)
      THEN <<>>
      ELSE [delivery_latitude |-> Some(p.location[1].latitude),
            delivery_longitude |-> Some(p.location[1].longitude),
            delivery_timestamp |-> Some(ToISOString(p.location[1].timestamp))])
  @@ (IF p.paymentMethod = "CASH" /\ ~IsNull(p.cashReason)
      THEN [cash_fallback_reason |-> p.cashReason] ELSE <<>>)

\* what the upload to the bucket 'proofs' can end with
Uploads == {"uploaded", "bucket_not_found", "failed"}

\* handlePOD after a photo was taken: the upload and the update of the order
PhotoTaken(upload, ok) ==
  /\ Mounted
  /\ ~IsNull(pod)
  /\ pod[1].pc = "camera"
  /\ RtRoom(1)
  /\ pod' = None
  /\ loading' = FALSE
  /\ \/ /\ upload = "uploaded"
        /\ Commit(DoUpdate(Start, pod[1].id, UpdateData("public_url", pod[1]), ok))
        /\ IF ok
           THEN /\ selectedOrder' = None
                /\ ClearQr
                /\ FetchOrders(user)
           ELSE UNCHANGED <<selectedOrder, qrVars, orders, fetching>>
     \/ /\ upload = "bucket_not_found"
        /\ Commit(DoUpdate(Start, pod[1].id,
                           UpdateData("no_storage_configured", pod[1]), ok))
        /\ IF ok
           THEN /\ selectedOrder' = None
                /\ FetchOrders(user)
           ELSE UNCHANGED <<selectedOrder, orders, fetching>>
        /\ UNCHANGED qrVars
     \/ /\ upload = "failed"
        /\ ok
        /\ NoWrite
        /\ UNCHANGED <<rt, selectedOrder, qrVars, orders, fetching>>
  /\ UNCHANGED <<intents, sub, authVars, upd, gen, settleVars, activeTab, signupVars,
                 gpsVars, refVars, insertVars>>

\* ------------------------------------------------------ payrex-webhook
\* the order ids a request can name: those of the table and one that is not
\* in it
OrderIds == Orders \cup {"o9"}

\* the events posted to the webhook (nothing checks who posts): metadata is
\* null when the object of the event has none
Events ==
  [type : {"payment_intent.succeeded", "payment_intent.payment_failed"},
   id : {IntentId(o) : o \in Orders},
   metadata : {None} \cup {Some([order_id |-> o]) : o \in OrderIds}]

\* the event PayRex posts when the intent of order o is paid
Succeeded(o) ==
  [type |-> "payment_intent.succeeded", id |-> IntentId(o),
   metadata |-> Some([order_id |-> o])]

\* new Response(JSON.stringify(body), {status})
Response(status, body) == [status |-> status, body |-> body]

\* update(cols).eq('id', o), o matching a row of the table or none
UpdateWhere(st, o, cols, ok) ==
  IF o \in Orders THEN DoUpdate(st, o, cols, ok)
  ELSE IF ok THEN <<st[1], st[2], Append(st[3], [id |-> o, cols |-> cols]), st[4]>>
  ELSE st

\* the handler updating the order on an event of any type
PayrexWebhookAnyType(event, ok) ==
  /\ RtRoom(1)
  /\ LET call == [fn |-> "payrex-webhook", req |-> event, ok |-> ok]
     IN IF IsNull(event.metadata)
        THEN /\ ok
             /\ http' = Some(call @@ Response(400, [error |-> "TypeError"]))
             /\ writes' = <<>>
             /\ UNCHANGED <<db, rt, completedOn>>
        ELSE /\ Updated(UpdateWhere(Start, event.metadata[1].order_id,
                           [status |-> "PAID", payment_method |-> Some("QRPH"),
                            payrex_id |-> event.id], ok))
             /\ http' = Some(call @@ IF ok THEN Response(200, [received |-> TRUE])
                                     ELSE Response(400, [error |-> "update"]))
  /\ UNCHANGED <<sub, authVars, qrVars, uiVars, opVars, settleVars, activeTab, signupVars,
                 gpsVars, refVars, insertVars>>

\* the handler of payrex-webhook for one event; ok: the update succeeded (not
\* ok: it returned an error, which is thrown)
PayrexWebhook(event, ok) ==
  /\ RtRoom(1)
  /\ LET call == [fn |-> "payrex-webhook", req |-> event, ok |-> ok]
     IN IF event.type = "payment_intent.succeeded"
        THEN IF IsNull(event.metadata)
             THEN /\ ok
                  /\ http' = Some(call @@ Response(400, [error |-> "TypeError"]))
                  /\ writes' = <<>>
                  /\ UNCHANGED <<db, rt, completedOn>>
             ELSE /\ Updated(UpdateWhere(Start, event.metadata[1].order_id,
                                [status |-> "PAID", payment_method |-> Some("QRPH"),
                                 payrex_id |-> event.id], ok))
                  /\ http' = Some(call @@ IF ok THEN Response(200, [received |-> TRUE])
                                          ELSE Response(400, [error |-> "update"]))
        ELSE /\ ok
             /\ http' = Some(call @@ Response(200, [received |-> TRUE]))
             /\ writes' = <<>>
             /\ UNCHANGED <<db, rt, completedOn>>
  /\ UNCHANGED <<sub, authVars, qrVars, uiVars, opVars, settleVars, activeTab, signupVars,
                 gpsVars, refVars, insertVars>>

\* payment_intent.succeeded for the intent of order o
Webhook(o, ok) ==
  /\ o \in intents
  /\ PayrexWebhook(Succeeded(o), ok)
  /\ intents' = IF ok THEN intents \ {o} ELSE intents

\* any event posted to the webhook
Deliver(event, ok) ==
  /\ PayrexWebhook(event, ok)
  /\ intents' = intents

\* ---------------------------------------------------------- generate-qr
QR_EXPIRY_MINUTES == 5

\* what the request to PayRex ends with: a payment intent with or without a
\* QR image URL, a response that is not ok, a network error
Payrex == {"ok", "ok_no_qr", "not_ok", "network_error"}

\* the requests to the function: the body is null when it is not JSON;
\* bodyUsed is the flag of the Fetch API (the body stream was read)
Requests ==
  [method : {"POST", "OPTIONS"},
   body : {None} \cup {Some([orderId |-> o, amount |-> a]) :
                         o \in OrderIds, a \in {Some(n) : n \in 1..MaxAmount}},
   bodyUsed : {FALSE}]

\* req.json(): the parsed body (null: it throws) and the request afterwards
Json(req) == [value |-> req.body, req |-> [req EXCEPT !.bodyUsed = TRUE]]

\* req.clone(): a copy of the request; throws (null) once the body was read
Clone(req) == IF req.bodyUsed THEN None ELSE Some(req)

\* expires_at / expires_in_seconds of an answer: expires_at is kept as the
\* milliseconds from the time of the answer until it
Expiry ==
  [expires_at |-> QR_EXPIRY_MINUTES * 60 * 1000,
   expires_in_seconds |-> QR_EXPIRY_MINUTES * 60]

\* the catch block of the handler: the fallback QR
Fallback(req) ==
  LET copy == Clone(req)
      read == IF IsNull(copy) THEN None ELSE Json(copy[1]).value
  IN IF IsNull(read)
     THEN Response(400, [error |-> "Invalid request body"])
     ELSE Response(200, [qr_url |-> Some(MockQr(read[1].orderId, read[1].amount)),
                         payrex_id |-> [fallback |-> read[1].orderId],
                         test_mode |-> TRUE] @@ Expiry)

\* the Deno.serve handler of generate-qr
GenerateQr(req, payrex) ==
  IF req.method = "OPTIONS" THEN Response(200, [text |-> "ok"])
  ELSE LET read == Json(req)
       IN IF ~IsNull(read.value) /\ payrex \in {"ok", "ok_no_qr"}
          THEN Response(200,
                 [qr_url |-> IF payrex = "ok" THEN Some(PayrexQr(read.value[1].orderId))
                             ELSE None,
                  payrex_id |-> IntentId(read.value[1].orderId)] @@ Expiry)
          ELSE Fallback(read.req)

\* one call of the function generate-qr
GenerateQrServe(req, payrex) ==
  /\ http' = Some([fn |-> "generate-qr", req |-> req, payrex |-> payrex]
                  @@ GenerateQr(req, payrex))
  /\ intents' = IF /\ req.method = "POST"
                   /\ ~IsNull(req.body)
                   /\ payrex \in {"ok", "ok_no_qr"}
                   /\ req.body[1].orderId \in Orders
                THEN intents \cup {req.body[1].orderId}
                ELSE intents
  /\ writes' = <<>>
  /\ UNCHANGED <<db, completedOn, netVars, authVars, qrVars, uiVars, opVars,
                 settleVars, activeTab, signupVars, gpsVars, refVars, insertVars>>

\* ------------------------------------------- realtime INSERT handler
\* how often the toast and the notification of a new order may be repeated
MaxPush == 2

\* the handler showing the toast and the notification without recording the id
RealtimeInsertUnrecorded(o) ==
  /\ Mounted
  /\ sub = Some(db[o].rider_id)
  /\ newOrderPushes[o].toast < MaxPush
  /\ IF o \notin orderIdsRef
     THEN /\ orderIdsRef' = orderIdsRef
          /\ newOrderPushes' = [newOrderPushes EXCEPT ![o] =
                                  [toast |-> @.toast + 1,
                                   notification |-> @.notification + 1]]
          /\ FetchOrders(sub[1])
     ELSE UNCHANGED <<orderIdsRef, newOrderPushes, orders, fetching>>
  /\ NoWrite
  /\ UNCHANGED <<selectedOrder, loading, intents, netVars, authVars, qrVars, upd, gen,
                 pod, settleVars, activeTab, signupVars, gpsVars, refVars>>

\* an INSERT notification of the row of o reaches the joined channel (its
\* filter is rider_id=eq.<the user of the effect>) and is handled:
\* if (!orderIdsRef.current.has(id)) { add; showToast; await notifyNewOrder;
\* fetchOrders() }, notifyNewOrder resolving without any I/O
RealtimeInsert(o) ==
  /\ Mounted
  /\ sub = Some(db[o].rider_id)
  /\ newOrderPushes[o].toast < MaxPush
  /\ IF o \notin orderIdsRef
     THEN /\ orderIdsRef' = orderIdsRef \cup {o}
          /\ newOrderPushes' = [newOrderPushes EXCEPT ![o] =
                                  [toast |-> @.toast + 1,
                                   notification |-> @.notification + 1]]
          /\ FetchOrders(sub[1])
     ELSE UNCHANGED <<orderIdsRef, newOrderPushes, orders, fetching>>
  /\ NoWrite
  /\ UNCHANGED <<selectedOrder, loading, intents, netVars, authVars, qrVars, upd, gen,
                 pod, settleVars, activeTab, signupVars, gpsVars, refVars>>

\* ------------------------------------------- realtime UPDATE handler
\* sent: the update builder of the auto-complete is never awaited, the
\* request may or may not leave
RealtimeUpdate(sent) ==
  /\ Mounted
  /\ rt # <<>>
  /\ LET updatedOrder == Head(rt).new
         viewing == ~IsNull(selectedOrder) /\ selectedOrder[1].id = updatedOrder.id
         paid == Head(rt).changed /\ updatedOrder.status = "PAID"
         closureUser == IF IsNull(sub) THEN NoUser ELSE sub[1]
     IN /\ IF paid /\ viewing
           THEN /\ ClearQr
                /\ Commit(DoUpdate(<<db, Tail(rt), <<>>, completedOn>>, updatedOrder.id,
                                   [status |-> "COMPLETED"], sent))
           ELSE /\ sent
                /\ rt' = Tail(rt)
                /\ NoWrite
                /\ UNCHANGED qrVars
        /\ IF Head(rt).changed
           THEN NotifyStatus(updatedOrder.id, updatedOrder.status)
           ELSE UNCHANGED refVars
        /\ selectedOrder' = IF viewing THEN Some(updatedOrder) ELSE selectedOrder
        /\ FetchOrders(closureUser)
  /\ UNCHANGED <<loading, intents, sub, authVars, upd, gen, pod, settleVars, activeTab,
                 signupVars, gpsVars, insertVars>>

\* ------------------------------------------------- SettlementScreen
\* .eq('rider_id', u).eq('status', 'COMPLETED').gte('created_at', todayStart)
\* with todayStart the local midnight that began today
StatsQuery(u) ==
  {o \in Orders : /\ db[o].rider_id = u
                  /\ db[o].status = "COMPLETED"
                  /\ db[o].created_at >= day}

\* the rows of a set of orders, in every order the query may return them
Answers(ids) ==
  LET n == Cardinality(ids)
  IN {[i \in 1..n |-> db[s[i]]] :
        s \in {t \in [1..n -> ids] : \A i, j \in 1..n : i # j => t[i] # t[j]}}

NoStats ==
  [totalDeliveries |-> 0, qrphCount |-> 0, qrphAmount |-> 0,
   cashCount |-> 0, cashAmount |-> 0, totalAmount |-> 0]

\* the body with a plain else: whatever is not QRPH counts as cash
AddOrderElseCash(stats, order) ==
  LET amount == IF IsNull(order.cod_amount) THEN 0 ELSE order.cod_amount[1]
      total == [stats EXCEPT !.totalAmount = @ + amount]
  IN IF order.payment_method = Some("QRPH")
     THEN [total EXCEPT !.qrphCount = @ + 1, !.qrphAmount = @ + amount]
     ELSE [total EXCEPT !.cashCount = @ + 1, !.cashAmount = @ + amount]

\* the body of data.forEach: stats after one more order
AddOrder(stats, order) ==
  LET amount == IF IsNull(order.cod_amount) THEN 0 ELSE order.cod_amount[1]
      total == [stats EXCEPT !.totalAmount = @ + amount]
  IN IF order.payment_method = Some("QRPH")
     THEN [total EXCEPT !.qrphCount = @ + 1, !.qrphAmount = @ + amount]
     ELSE IF order.payment_method = Some("CASH")
          THEN [total EXCEPT !.cashCount = @ + 1, !.cashAmount = @ + amount]
          ELSE total

RECURSIVE ForEach(_, _)
ForEach(stats, data) ==
  IF data = <<>> THEN stats ELSE ForEach(AddOrder(stats, Head(data)), Tail(data))

\* the statistics fetchDailyStats computes from the rows of the answer
Aggregate(data) ==
  ForEach([NoStats EXCEPT !.totalDeliveries = Len(data)], data)

\* fetchDailyStats up to its await: the query, answered with rows or an error
FetchDailyStats(isRefreshing, error) ==
  /\ user # NoUser
  /\ IsNull(statsReq)
  /\ refreshing' = (refreshing \/ isRefreshing)
  /\ \E data \in Answers(StatsQuery(user)) :
        statsReq' = Some([error |-> error, data |-> IF error THEN <<>> ELSE data])
  /\ NoWrite
  /\ UNCHANGED <<intents, netVars, authVars, qrVars, uiVars, opVars, day, dailyStats,
                 activeTab, signupVars, gpsVars, refVars, insertVars>>

\* ... and what follows it
FetchDailyStatsDone ==
  /\ ~IsNull(statsReq)
  /\ statsReq' = None
  /\ refreshing' = FALSE
  /\ dailyStats' = IF statsReq[1].error THEN dailyStats ELSE Aggregate(statsReq[1].data)
  /\ NoWrite
  /\ UNCHANGED <<intents, netVars, authVars, qrVars, uiVars, opVars, day, activeTab,
                 signupVars, gpsVars, refVars, insertVars>>

\* local midnight passes
Midnight ==
  /\ day < MaxDay
  /\ day' = day + 1
  /\ NoWrite
  /\ UNCHANGED <<intents, netVars, authVars, qrVars, uiVars, opVars, statsReq, refreshing,
                 dailyStats, activeTab, signupVars, gpsVars, refVars, insertVars>>

\* ---------------------------------------------------------------- Init
\* the orders of the table: one assigned to each rider, created today
Assigned(o) == IF o = "o1" THEN "r1" ELSE "r2"

\* status: the stage the orders are at when the screen is mounted
TableInit(status) ==
  /\ db = [o \in Orders |->
             [NewRow(o, Assigned(o), Some(1), 1) EXCEPT !.status = status]]
  /\ completedOn = [o \in Orders |-> None]
  /\ writes = <<>>
  /\ http = None
  /\ intents = {}
  /\ day = 1
  /\ statusPushes = [key \in StatusKeys |-> 0]
  /\ newOrderPushes = [o \in Orders |-> NoPushes]

\* a HomeScreen that has just been mounted for u (NoUser: nobody signed in);
\* joined: the realtime channel reached SUBSCRIBED
HomeInit(u, joined) ==
  /\ rt = <<>>
  /\ sub = IF joined /\ u # NoUser THEN Some(u) ELSE None
  /\ user = u
  /\ orders = <<>>
  /\ selectedOrder = None
  /\ qrValue = None
  /\ qrExpiresAt = None
  /\ qrTimeRemaining = None
  /\ loading = FALSE
  /\ activeTab = "active"
  /\ form = EmptyForm
  /\ signUpLoading = FALSE
  /\ alert = None
  /\ signUpCall = None
  /\ timer = None
  /\ fetching = IF u = NoUser THEN {} ELSE {u}
  /\ upd = None
  /\ gen = <<>>
  /\ pod = None
  /\ capture = None
  /\ notifiedStatusRef = {}
  /\ orderIdsRef = {}

\* ... shown by the root layout, auth loading finished
ScreenInit(u, joined) ==
  /\ HomeInit(u, joined)
  /\ route = "tabs"
  /\ authLoading = FALSE
  /\ permission = "undetermined"

SettleInit ==
  /\ statsReq = None
  /\ refreshing = FALSE
  /\ dailyStats = NoStats

\* the app starts with nobody signed in
Init == TableInit("PENDING") /\ ScreenInit(NoUser, TRUE) /\ SettleInit

Auth ==
  \/ \E r \in Riders : SignIn(r)
  \/ SignOut
  \/ LayoutRedirect

List ==
  \/ \E u \in Riders, e \in BOOLEAN : FetchOrdersDone(u, e)
  \/ \E i \in 1..Cardinality(Orders) : SelectOrder(i)
  \/ Back

Status ==
  \/ \E ok \in BOOLEAN : UpdateOrderStatusCall(ok)
  \/ UpdateOrderStatusDone

Qr ==
  \/ GenerateQRCall
  \/ \E i \in 1..MaxGen, oc \in Outcomes, ok \in BOOLEAN : GenerateQRDone(i, oc, ok)
  \/ \E i \in 1..MaxGen, ok \in BOOLEAN : GenerateQRSaved(i, ok)

Clock ==
  \/ TimerFire
  \/ Tick

Pod ==
  \/ \E reason \in Reasons, l \in Locations : CashButton(reason, l)
  \/ \E l \in Locations : SimulatePaymentButton(l)
  \/ SwitchToCashButton
  \/ CameraCanceled
  \/ \E l \in Locations : AlertTryAgain(l)
  \/ AlertCancel
  \/ \E up \in Uploads, ok \in BOOLEAN : PhotoTaken(up, ok)

Remote ==
  \/ \E o \in Orders, ok \in BOOLEAN : Webhook(o, ok)
  \/ \E sent \in BOOLEAN : RealtimeUpdate(sent)

Inserts == \E o \in Orders : RealtimeInsert(o)

Nav ==
  \/ \E u \in Riders \cup {NoUser} : AuthLoaded(u)
  \/ \E r \in Routes : OpenRoute(r)

SignUp ==
  \/ \E f \in Forms : TypeForm(f)
  \/ HandleSignUp
  \/ \E error \in BOOLEAN : HandleSignUpDone(error)
  \/ DismissAlert
  \/ SignUpBack

Edge ==
  \/ \E event \in Events, ok \in BOOLEAN : Deliver(event, ok)
  \/ \E req \in Requests, p \in Payrex : GenerateQrServe(req, p)

Tabs == \E tab \in {"active", "completed"} : SetActiveTab(tab)

Settlement ==
  \/ \E r \in BOOLEAN, e \in BOOLEAN : FetchDailyStats(r, e)
  \/ FetchDailyStatsDone
  \/ Midnight

Next ==
  Auth \/ Nav \/ SignUp \/ List \/ Tabs \/ Status \/ Qr \/ Clock \/ Gps \/ Pod \/ Remote
    \/ Inserts \/ Edge \/ Settlement

\* the whole application
Spec == Init /\ [][Next]_vars

\* The status workflow of a signed-in rider, with the webhook and the realtime
\* feed (the countdown is left out: no QR expires).
FlowInit == TableInit("PENDING") /\ ScreenInit("r1", TRUE) /\ SettleInit

FlowNext == List \/ Status \/ Qr \/ Pod \/ Remote

\* the realtime notifications are delivered and the handlers of the client
\* (the realtime handler, what follows an await) run
FlowFair ==
  /\ WF_vars(\E sent \in BOOLEAN : RealtimeUpdate(sent))
  /\ WF_vars(\E u \in Riders, e \in BOOLEAN : FetchOrdersDone(u, e))
  /\ WF_vars(UpdateOrderStatusDone)
  /\ WF_vars(\E i \in 1..MaxGen, oc \in Outcomes, ok \in BOOLEAN : GenerateQRDone(i, oc, ok))
  /\ WF_vars(\E i \in 1..MaxGen, ok \in BOOLEAN : GenerateQRSaved(i, ok))

SpecFlow == FlowInit /\ [][FlowNext]_vars /\ FlowFair

\* Proof of delivery: the home screen of a signed-in rider whose realtime
\* channel is not joined (the countdown is left out: no QR expires).
PodInit == TableInit("PENDING") /\ ScreenInit("r1", FALSE) /\ SettleInit

PodNext == List \/ Tabs \/ Status \/ Qr \/ Pod

SpecPod == PodInit /\ [][PodNext]_vars

\* The QR and its countdown: the home screen of a signed-in rider with the
\* orders at ARRIVED, the realtime feed and the clock.
QrInit == TableInit("ARRIVED") /\ ScreenInit("r1", TRUE) /\ SettleInit

QrNext == List \/ Qr \/ Clock \/ \E sent \in BOOLEAN : RealtimeUpdate(sent)

SpecQr == QrInit /\ [][QrNext]_vars

\* ---- handleGenerateQR (the button and the auto-regeneration of the timer)
\* on an order at ARRIVED
GenInit == TableInit("ARRIVED") /\ ScreenInit("r1", FALSE) /\ SettleInit

GenNext == List \/ Qr \/ Clock

SpecGen == GenInit /\ [][GenNext]_vars

\* The settlement screen of a signed-in rider over a table of orders created
\* yesterday or today, assigned to any rider, some of them completed (by cash,
\* by QR or otherwise) on the day they were created or after it.
SettleRows ==
  {r \in [rider : Riders,
          amount : {None} \cup {Some(a) : a \in 1..MaxAmount},
          method : {None, Some("QRPH"), Some("CASH")},
          created : 0..1,
          completed : {None} \cup {Some(d) : d \in 0..1}] :
     /\ ~IsNull(r.completed) => r.completed[1] >= r.created
     /\ IsNull(r.completed) => IsNull(r.method)}

SettleTable(t) ==
  /\ db = [o \in Orders |->
             [NewRow(o, t[o].rider, t[o].amount, t[o].created) EXCEPT
                !.status = IF IsNull(t[o].completed) THEN "ARRIVED" ELSE "COMPLETED",
                !.payment_method = t[o].method]]
  /\ completedOn = [o \in Orders |-> t[o].completed]
  /\ writes = <<>>
  /\ http = None
  /\ intents = {}
  /\ day = 1
  /\ statusPushes = [key \in StatusKeys |-> 0]
  /\ newOrderPushes = [o \in Orders |-> NoPushes]

SettlementInit ==
  /\ \E t \in [Orders -> SettleRows] : SettleTable(t)
  /\ ScreenInit("r1", FALSE)
  /\ SettleInit

SpecSettle == SettlementInit /\ [][Settlement]_vars

\* Signing in and out, the list and the realtime feed.
AuthNext == Auth \/ List \/ Tabs \/ Status \/ \E sent \in BOOLEAN : RealtimeUpdate(sent)

SpecAuth == Init /\ [][AuthNext]_vars

\* The list and its tabs: the home screen of a signed-in rider over a table of
\* orders assigned to any rider, some of them completed.
ListInit ==
  /\ \E t \in [Orders -> SettleRows] : SettleTable(t)
  /\ ScreenInit("r1", FALSE)
  /\ SettleInit

ListNext == List \/ Tabs

SpecList == ListInit /\ [][ListNext]_vars

\* The edge functions: the webhook and generate-qr called by anyone, over a
\* table of orders at ARRIVED (the app is not looking: no channel is joined).
EdgeInit == TableInit("ARRIVED") /\ ScreenInit("r1", FALSE) /\ SettleInit

EdgeNext == Edge \/ \E o \in Orders, ok \in BOOLEAN : Webhook(o, ok)

SpecEdge == EdgeInit /\ [][EdgeNext]_vars

\* Navigation: the app from its start (no segments yet, auth loading), the
\* root layout, signing in, up and out.
NavInit ==
  /\ TableInit("PENDING")
  /\ HomeInit(NoUser, FALSE)
  /\ route = ""
  /\ authLoading = TRUE
  /\ permission = "undetermined"
  /\ SettleInit

NavNext == Auth \/ Nav \/ SignUp

SpecNav == NavInit /\ [][NavNext]_vars

\* ---- captureCurrentLocation alone, from each permission status of the device
GpsInit ==
  /\ TableInit("ARRIVED")
  /\ HomeInit("r1", FALSE)
  /\ route = "tabs"
  /\ authLoading = FALSE
  /\ permission \in PermissionStatuses
  /\ SettleInit

GpsNext == Gps

SpecGps == GpsInit /\ [][GpsNext]_vars

\* ---- the rider's status updates and the realtime notifications they produce,
\* on one mounted HomeScreen whose channel is joined
NotifyInit == TableInit("PENDING") /\ ScreenInit("r1", TRUE) /\ SettleInit

NotifyNext ==
  List \/ Tabs \/ Status \/ Inserts \/ \E sent \in BOOLEAN : RealtimeUpdate(sent)

SpecNotify == NotifyInit /\ [][NotifyNext]_vars

\* ---------------------------------------------------------- the claims
\* the status changes the workflow allows
C1_Forward ==
  {<<"PENDING", "EN_ROUTE">>, <<"EN_ROUTE", "ARRIVED">>, <<"ARRIVED", "PAID">>,
   <<"ARRIVED", "COMPLETED">>, <<"PAID", "COMPLETED">>}

\* C1: a value written to the status column of an order is the stage the
\* order is at (if that is not COMPLETED) or the next one along PENDING ->
\* EN_ROUTE -> ARRIVED -> (PAID -> COMPLETED | COMPLETED): no write goes back
\* to an earlier stage, skips from PENDING or EN_ROUTE to PAID or COMPLETED, or
\* writes the status of a COMPLETED order.
C1_StatusOrdered ==
  [][\A i \in DOMAIN writes' :
        "status" \in DOMAIN writes'[i].cols
          => LET old == db[writes'[i].id].status
                 new == writes'[i].cols.status
             IN \/ <<old, new>> \in C1_Forward
                \/ old = new /\ old # "COMPLETED"]_vars

\* C2: with the notifications delivered and the handlers of the client running,
\* an order that became PAID on the QR path (it was not completed before) is
\* eventually COMPLETED.
C2_PaidCompletes ==
  \A o \in Orders :
     (db[o].status = "PAID" /\ IsNull(completedOn[o])) ~> (db[o].status = "COMPLETED")

\* what C3 asks of the screen when the call gen[i] has completed
C3_QrHeld(g) ==
  /\ ~IsNull(qrValue')
  /\ qrValue'[1] \in {MockQr(g.id, g.amount), PayrexQr(g.id)}
  /\ ~IsNull(qrExpiresAt')
  /\ qrExpiresAt'[1] > 0
  /\ timer' = qrExpiresAt'
  /\ qrValue'[1] = MockQr(g.id, g.amount) => qrExpiresAt' = Some(QrLife)

\* C3: when a handleGenerateQR call completes, whatever generate-qr answered,
\* the screen holds a QR of the order and an expiry in the future, and the
\* countdown to that expiry runs; the placeholder QR expires 5 minutes (QrLife)
\* after it was built.
C3_QrAfterGenerate ==
  [][Len(gen') < Len(gen) =>
       \E i \in DOMAIN gen : gen' = Drop(gen, i) /\ C3_QrHeld(gen[i])]_vars

\* the call the interval makes for the selected order when its countdown ends
C4_AutoCall ==
  [id |-> selectedOrder[1].id, amount |-> selectedOrder[1].cod_amount, auto |-> TRUE,
   pc |-> "invoke"]

\* C4: (1) an interval that stops while its QR stays on the screen stops at
\* remaining = 0 and, an order being selected, handleGenerateQR(selectedOrder,
\* true) is called once; (2) an automatic call is made only so; (3) when an
\* automatic call completes, the screen holds an expiry in the future and the
\* countdown to it runs.
C4_AutoRegenerate ==
  [][/\ (~IsNull(timer) /\ IsNull(timer') /\ ~IsNull(qrValue) /\ qrValue' = qrValue)
          => /\ timer[1] = 0
             /\ qrTimeRemaining' = Some(0)
             /\ ~IsNull(selectedOrder) => gen' = Append(gen, C4_AutoCall)
     /\ (Len(gen') > Len(gen) /\ gen'[Len(gen')].auto)
          => /\ ~IsNull(timer) /\ timer[1] = 0 /\ IsNull(timer')
             /\ ~IsNull(selectedOrder) /\ gen' = Append(gen, C4_AutoCall)
     /\ Len(gen') < Len(gen)
          => \E i \in DOMAIN gen :
                /\ gen' = Drop(gen, i)
                /\ gen[i].auto => /\ ~IsNull(qrExpiresAt')
                                  /\ qrExpiresAt'[1] > 0
                                  /\ timer' = qrExpiresAt']_vars

\* C5: every COMPLETED order has the proof_url of a photo uploaded to the
\* bucket 'proofs'.
C5_CompletedHasProof ==
  \A o \in Orders : db[o].status = "COMPLETED" => db[o].proof_url = Some("public_url")

\* C6: the step in which the camera is cancelled sends no update, leaves the
\* table and the selected order as they are; from the alert it opens, the only
\* steps are Try Again, which runs handlePOD with the same orderId,
\* paymentMethod and cashReason, and Cancel, which clears the QR value, neither
\* sending an update.
C6_CameraCancel ==
  [][/\ (~IsNull(pod) /\ pod[1].pc = "camera" /\ ~IsNull(pod') /\ pod'[1].pc = "alert")
          => /\ writes' = <<>>
             /\ db' = db
             /\ selectedOrder' = selectedOrder
             /\ ~IsNull(selectedOrder)
     /\ (~IsNull(pod) /\ pod[1].pc = "alert" /\ pod' # pod)
          => /\ writes' = <<>>
             /\ db' = db
             /\ \/ /\ ~IsNull(pod')
                   /\ pod'[1].pc = "camera"
                   /\ pod'[1].id = pod[1].id
                   /\ pod'[1].paymentMethod = pod[1].paymentMethod
                   /\ pod'[1].cashReason = pod[1].cashReason
                   /\ selectedOrder' = selectedOrder
                \/ /\ IsNull(pod')
                   /\ IsNull(qrValue')
                   /\ selectedOrder' = selectedOrder]_vars

\* the alert of a cancelled cash completion is open
C6_Witness ==
  ~IsNull(pod) /\ pod[1].pc = "alert" /\ pod[1].paymentMethod = "CASH"

\* C7: an update that writes status COMPLETED with payment_method CASH writes
\* cash_fallback_reason too, one of the two reasons; one that writes COMPLETED
\* with payment_method QRPH does not write cash_fallback_reason.
C7_CashReason ==
  \A i \in DOMAIN writes :
     LET c == writes[i].cols
     IN ("status" \in DOMAIN c /\ c.status = "COMPLETED" /\ "payment_method" \in DOMAIN c)
          => /\ c.payment_method = Some("CASH")
                  => /\ "cash_fallback_reason" \in DOMAIN c
                     /\ c.cash_fallback_reason \in {Some(r) : r \in Reasons}
             /\ c.payment_method = Some("QRPH") => "cash_fallback_reason" \notin DOMAIN c

\* a cash completion was written for an order that had had a QR before (the
\* rider switched to cash)
C7_Witness ==
  /\ writes # <<>>
  /\ "status" \in DOMAIN writes[1].cols
  /\ writes[1].cols.status = "COMPLETED"
  /\ writes[1].cols.payment_method = Some("CASH")
  /\ ~IsNull(db[writes[1].id].qr_ph)

\* the amount of an order, a missing one counting as 0
C8_Amount(order) == IF IsNull(order.cod_amount) THEN 0 ELSE order.cod_amount[1]

\* the sum of the amounts of the rows of data at the indices I
RECURSIVE C8_Sum(_, _)
C8_Sum(data, I) ==
  IF I = {} THEN 0
  ELSE LET i == CHOOSE j \in I : TRUE
       IN C8_Amount(data[i]) + C8_Sum(data, I \ {i})

\* the totals of C8 for the rows of an answer
C8_Totals(data) ==
  LET qrph == {i \in DOMAIN data : data[i].payment_method = Some("QRPH")}
      cash == {i \in DOMAIN data : data[i].payment_method = Some("CASH")}
  IN [totalDeliveries |-> Len(data),
      qrphCount |-> Cardinality(qrph), qrphAmount |-> C8_Sum(data, qrph),
      cashCount |-> Cardinality(cash), cashAmount |-> C8_Sum(data, cash),
      totalAmount |-> C8_Sum(data, DOMAIN data)]

\* C8: when fetchDailyStats has the rows of its query, dailyStats becomes:
\* totalDeliveries the number of rows, totalAmount the sum of cod_amount over
\* all of them (a missing one counting 0), qrphCount / qrphAmount the count and
\* sum over the rows with payment_method QRPH, cashCount / cashAmount over the
\* rows with payment_method CASH.
C8_Aggregation ==
  [][(~IsNull(statsReq) /\ IsNull(statsReq') /\ ~statsReq[1].error)
        => dailyStats' = C8_Totals(statsReq[1].data)]_vars

\* two orders were counted, one by QR with an amount, one by cash without
C8_Witness ==
  /\ dailyStats.totalDeliveries = 2
  /\ dailyStats.qrphCount = 1
  /\ dailyStats.qrphAmount = MaxAmount
  /\ dailyStats.cashCount = 1
  /\ dailyStats.cashAmount = 0

\* C9: the rows fetchDailyStats asks for are exactly the orders of the rider
\* that are COMPLETED and were completed today (since local midnight).
C9_CompletedToday ==
  [][(IsNull(statsReq) /\ ~IsNull(statsReq') /\ ~statsReq'[1].error)
        => {statsReq'[1].data[i].id : i \in DOMAIN statsReq'[1].data}
             = {o \in Orders : /\ db[o].rider_id = user
                               /\ db[o].status = "COMPLETED"
                               /\ completedOn[o] = Some(day)}]_vars

\* C10: the list of the home screen holds only orders of the signed-in user.
C10_ListOfUser ==
  \A i \in DOMAIN orders : orders[i].rider_id = user

\* s is t with some elements left out, the others in the order of t
C11_SubSeq(s, t) ==
  \E f \in [DOMAIN s -> DOMAIN t] :
     /\ \A i, j \in DOMAIN s : i < j => f[i] < f[j]
     /\ \A i \in DOMAIN s : s[i] = t[f[i]]

\* C11: every fetched order is in exactly one of the two tabs, the Completed
\* tab holds exactly the orders with status COMPLETED, the Active tab exactly
\* the others, each in the fetched order; the list shown is that of activeTab.
C11_TabsPartition ==
  LET A == Filter(orders, "active")
      C == Filter(orders, "completed")
      In(s, x) == \E j \in DOMAIN s : s[j] = x
  IN /\ \A i \in DOMAIN orders :
          /\ In(A, orders[i]) # In(C, orders[i])
          /\ In(C, orders[i]) = (orders[i].status = "COMPLETED")
     /\ Len(A) + Len(C) = Len(orders)
     /\ C11_SubSeq(A, orders)
     /\ C11_SubSeq(C, orders)
     /\ filteredOrders = IF activeTab = "completed" THEN C ELSE A

\* the Completed tab is shown over a fetched list of a completed order and
\* one that is not
C11_Witness ==
  /\ activeTab = "completed"
  /\ Len(orders) = 2
  /\ Len(filteredOrders) = 1

\* the table after the webhook has marked order o (if it is in the table) paid
C12_Paid(o) ==
  [x \in Orders |->
     IF x = o THEN [db[x] EXCEPT !.status = "PAID", !.payment_method = Some("QRPH")]
     ELSE db[x]]

\* the step sent this one update: PAID, QRPH and the id of the intent, to the
\* order the event names, no other row changing
C12_Writes(e) ==
  /\ writes' = <<[id |-> e.metadata[1].order_id,
                  cols |-> [status |-> "PAID", payment_method |-> Some("QRPH"),
                            payrex_id |-> e.id]]>>
  /\ db' = C12_Paid(e.metadata[1].order_id)

C12_Received(r) == r.status = 200 /\ r.body = [received |-> TRUE]

C12_NoWrite == writes' = <<>> /\ db' = db

\* C12 as stated: the webhook, on payment_intent.succeeded (naming an order),
\* sets PAID, QRPH and payrex_id on exactly that order and answers 200
\* {received: true}; on any other type it writes nothing and answers the same.
C12_WebhookEffect ==
  [][(~IsNull(http') /\ http'[1].fn = "payrex-webhook")
       => LET r == http'[1]
              e == r.req
          IN IF e.type = "payment_intent.succeeded"
             THEN ~IsNull(e.metadata) => C12_Writes(e) /\ C12_Received(r)
             ELSE C12_NoWrite /\ C12_Received(r)]_vars

\* C12 amended: ... provided the update succeeds; when the update returns an
\* error nothing is written and the answer is 400 with the error.
C12_WebhookEffectOrError ==
  [][(~IsNull(http') /\ http'[1].fn = "payrex-webhook")
       => LET r == http'[1]
              e == r.req
          IN IF e.type = "payment_intent.succeeded"
             THEN ~IsNull(e.metadata) =>
                    IF r.ok THEN C12_Writes(e) /\ C12_Received(r)
                    ELSE C12_NoWrite /\ r.status = 400 /\ DOMAIN r.body = {"error"}
             ELSE C12_NoWrite /\ C12_Received(r)]_vars

\* the webhook has answered 200 to a succeeded event naming an order of the
\* table that was not PAID before
C12_Witness ==
  /\ ~IsNull(http)
  /\ http[1].fn = "payrex-webhook"
  /\ http[1].status = 200
  /\ http[1].req.type = "payment_intent.succeeded"
  /\ writes # <<>>
  /\ writes[1].id \in Orders
  /\ db[writes[1].id].status = "PAID"

\* the fallback body for a request body
C13_FallbackBody(b) ==
  [qr_url |-> Some(MockQr(b.orderId, b.amount)), payrex_id |-> [fallback |-> b.orderId],
   test_mode |-> TRUE, expires_at |-> 300000, expires_in_seconds |-> 300]

\* C13: when the PayRex call fails for a request whose body is JSON with
\* orderId and amount, generate-qr answers 200 with the fallback body: the
\* placeholder QR of the order and amount, a payrex_id with the prefix
\* fallback_, test_mode true, an expiry 5 minutes (300 s) after the answer.
C13_FallbackAnswer ==
  [][(/\ ~IsNull(http')
      /\ http'[1].fn = "generate-qr"
      /\ http'[1].req.method = "POST"
      /\ ~IsNull(http'[1].req.body)
      /\ http'[1].payrex \in {"not_ok", "network_error"})
       => /\ http'[1].status = 200
          /\ http'[1].body = C13_FallbackBody(http'[1].req.body[1])]_vars

\* the user is on the wrong side: not signed in on (tabs) or on no route yet,
\* or signed in outside (tabs) and not on modal
C14_WrongSide ==
  \/ user = NoUser /\ route \in {"tabs", ""}
  \/ user # NoUser /\ route \notin {"tabs", "modal"}

\* C14: once auth loading has finished, the effect of the root layout
\* redirects a user who is on the wrong side, to login if not signed in and to
\* (tabs) if signed in; it redirects nobody else, and nobody while loading.
C14_AuthBoundary ==
  [][/\ (~authLoading /\ C14_WrongSide)
          => Redirect(user, authLoading, route)
               = Some(IF user = NoUser THEN "login" ELSE "tabs")
     /\ (authLoading \/ ~C14_WrongSide) => IsNull(Redirect(user, authLoading, route))
     /\ LayoutRedirect
          => /\ ~authLoading
             /\ C14_WrongSide
             /\ route' = IF user = NoUser THEN "login" ELSE "tabs"
             /\ ~C14_WrongSide']_vars

\* a signed-in user has been taken to (tabs) (the app starts on no route)
C14_Witness == ~authLoading /\ user # NoUser /\ route = "tabs"

\* the form passes the three checks of handleSignUp
C15_Valid ==
  /\ form.email # <<>>
  /\ form.password # <<>>
  /\ form.fullName # <<>>
  /\ form.phone # <<>>
  /\ form.password = form.confirmPassword
  /\ Len(form.password) >= 6

\* the message of the first check that fails
C15_FirstError ==
  IF form.email = <<>> \/ form.password = <<>> \/ form.fullName = <<>> \/ form.phone = <<>>
  THEN "Please fill in all fields"
  ELSE IF form.password # form.confirmPassword THEN "Passwords do not match"
  ELSE "Password must be at least 6 characters"

\* C15: handleSignUp calls signUp(email, password, fullName, phone) only if
\* the four are not empty, password equals confirmPassword and has at least 6
\* characters; otherwise it shows the error of the first check that fails,
\* calls nothing and leaves loading false.
C15_SignUpChecks ==
  [][HandleSignUp =>
       IF C15_Valid
       THEN /\ signUpCall' = Some([email |-> form.email, password |-> form.password,
                                   fullName |-> form.fullName, phone |-> form.phone])
            /\ IsNull(alert')
       ELSE /\ signUpCall' = signUpCall
            /\ ~signUpLoading'
            /\ alert' = Alert("Error", C15_FirstError)]_vars

\* signUp was called with a password of 6 characters
C15_Witness ==
  /\ ~IsNull(signUpCall)
  /\ Len(signUpCall[1].password) = 6
  /\ signUpLoading

\* a captureCurrentLocation call has ended
C16_Ended == ~IsNull(capture) /\ ~Capturing

\* what a call that has ended returned, but for the cases in which it returns
\* null: no exception, at most one prompt, and the latitude, longitude and
\* timestamp of the fix that was resolved
C16_Returned(nulls) ==
  C16_Ended =>
    /\ capture[1].pc = "returned"
    /\ capture[1].prompts <= 1
    /\ IsNull(capture[1].result) <=> nulls
    /\ ~IsNull(capture[1].result) =>
         /\ ~IsNull(capture[1].fix)
         /\ capture[1].result[1].latitude = capture[1].fix[1].latitude
         /\ capture[1].result[1].longitude = capture[1].fix[1].longitude
         /\ capture[1].result[1].timestamp.time = capture[1].fix[1].timestamp

\* the prompt is shown only when the permission was not granted already
C16_PromptWhenNotGranted ==
  (~IsNull(capture') /\ capture'[1].prompts > 0 /\ capture' # capture
     /\ (IsNull(capture) \/ capture[1].prompts = 0))
    => permission # "granted"

\* C16 as stated: captureCurrentLocation never throws; it returns null when
\* the permission is not granted after at most one prompt or when the
\* position lookup fails, and otherwise the latitude, longitude and timestamp
\* of one fix; the prompt is shown only when permission is not already granted.
C16_CaptureNeverThrows ==
  /\ [](C16_Returned(\/ permission # "granted"
                     \/ capture[1].rejected = Some("getCurrentPosition")))
  /\ [][C16_PromptWhenNotGranted]_vars

\* C16 amended: ... it also returns null when the query of the permission
\* status (getForegroundPermissionsAsync) fails, in which case nothing is
\* prompted and no position is looked up.
C16_CaptureNeverThrowsOrQueryFails ==
  /\ [](C16_Returned(\/ permission # "granted"
                     \/ capture[1].rejected = Some("getCurrentPosition")
                     \/ capture[1].rejected = Some("getForegroundPermissions")))
  /\ [][C16_PromptWhenNotGranted]_vars

\* a call returned a fix after the one prompt it showed was answered granted
C16_Witness ==
  /\ C16_Ended
  /\ capture[1].prompts = 1
  /\ ~IsNull(capture[1].result)
  /\ capture[1].result[1].latitude = 2

\* the three columns of the place and time of delivery
C17_DeliveryColumns == {"delivery_latitude", "delivery_longitude", "delivery_timestamp"}

\* C17: a null captureCurrentLocation does not block completion: handlePOD
\* goes on to the camera whatever the location is, and when the photo is
\* uploaded and the update succeeds, a handlePOD without a location writes
\* status COMPLETED, the proof URL and the payment method to the order, and
\* none of the three delivery columns.
C17_NoFixStillCompletes ==
  [][/\ ((IsNull(pod) \/ pod[1].pc = "alert") /\ ~IsNull(pod') /\ pod' # pod)
          => pod'[1].pc = "camera"
     /\ (PhotoTaken("uploaded", TRUE) /\ IsNull(pod[1].location))
          => /\ Len(writes') = 1
             /\ writes'[1].id = pod[1].id
             /\ writes'[1].cols.status = "COMPLETED"
             /\ writes'[1].cols.proof_url = Some("public_url")
             /\ writes'[1].cols.payment_method = Some(pod[1].paymentMethod)
             /\ DOMAIN writes'[1].cols \cap C17_DeliveryColumns = {}
             /\ db'[pod[1].id].status = "COMPLETED"]_vars

\* an order was completed with its photo and without a location
C17_Witness ==
  /\ Len(writes) = 1
  /\ writes[1].cols.status = "COMPLETED"
  /\ writes[1].cols.proof_url = Some("public_url")
  /\ "delivery_latitude" \notin DOMAIN writes[1].cols
  /\ db[writes[1].id].status = "COMPLETED"

\* the notification being handled says that an order became PAID
C18_PaidNotified == rt # <<>> /\ Head(rt).changed /\ Head(rt).new.status = "PAID"

\* ... and that order is the one open in the detail view
C18_Viewing == ~IsNull(selectedOrder) /\ selectedOrder[1].id = Head(rt).new.id

\* C18: handling an UPDATE notification whose status changed to PAID, for the
\* order open in the detail view, clears qrValue, qrExpiresAt and
\* qrTimeRemaining, replaces selectedOrder by the notified row and writes
\* status COMPLETED to the row of that order; for another order, or with no
\* order selected, selectedOrder and the QR state stay as they are and no
\* completion is written.
C18_PaidAutoComplete ==
  [][((\E sent \in BOOLEAN : RealtimeUpdate(sent)) /\ C18_PaidNotified)
       => IF C18_Viewing
          THEN /\ IsNull(qrValue') /\ IsNull(qrExpiresAt') /\ IsNull(qrTimeRemaining')
               /\ selectedOrder' = Some(Head(rt).new)
               /\ writes' = <<[id |-> Head(rt).new.id, cols |-> [status |-> "COMPLETED"]]>>
               /\ db'[Head(rt).new.id].status = "COMPLETED"
          ELSE /\ selectedOrder' = selectedOrder
               /\ UNCHANGED <<qrValue, qrExpiresAt, qrTimeRemaining>>
               /\ writes' = <<>>]_vars

\* C19: for each order and each of EN_ROUTE and ARRIVED, notifyTripStarted /
\* notifyArrival is sent at most once, in whatever order updateOrderStatus
\* and the handler of the realtime UPDATE notification of its write run.
C19_NotifiedOnce == \A key \in StatusKeys : statusPushes[key] <= 1

\* both notifications of o1 were sent, each write handled by updateOrderStatus
\* and by the realtime handler
C19_Witness ==
  /\ statusPushes[<<"o1", "EN_ROUTE">>] = 1
  /\ statusPushes[<<"o1", "ARRIVED">>] = 1
  /\ db["o1"].status = "ARRIVED"
  /\ IsNull(upd)
  /\ rt = <<>>

\* C20: the toast and the notification of a new order are produced at most
\* once per order id, and an INSERT notification for an id that is in
\* orderIdsRef (from an earlier INSERT notification or from a fetchOrders that
\* completed) produces no toast, no notification and no re-fetch.
C20_NewOrderOnce ==
  /\ [](\A o \in Orders : newOrderPushes[o].toast <= 1 /\ newOrderPushes[o].notification <= 1)
  /\ [][\A o \in Orders :
          (RealtimeInsert(o) /\ o \in orderIdsRef)
            => UNCHANGED <<newOrderPushes, fetching, orders, orderIdsRef>>]_vars
  /\ [][\A o \in Orders :
          (newOrderPushes'[o] # newOrderPushes[o])
            => /\ o \notin orderIdsRef
               /\ o \in orderIdsRef'
               /\ newOrderPushes'[o] = [toast |-> 1, notification |-> 1]]_vars

\* a new order was announced once, its list was fetched, and a second INSERT
\* notification of it can be handled
C20_Witness ==
  /\ newOrderPushes["o1"] = [toast |-> 1, notification |-> 1]
  /\ "o1" \in orderIdsRef
  /\ orders # <<>>
  /\ fetching = {}
  /\ ENABLED RealtimeInsert("o1")

\* the columns handleGenerateQR may write
C21_QrColumns ==
  {"qr_ph", "qr_generated_at", "qr_expires_at", "payrex_payment_intent_id",
   "payment_method"}

\* a step of handleGenerateQR that follows an await
C21_GenerateStep ==
  \/ \E i \in 1..MaxGen, oc \in Outcomes, ok \in BOOLEAN : GenerateQRDone(i, oc, ok)
  \/ \E i \in 1..MaxGen, ok \in BOOLEAN : GenerateQRSaved(i, ok)

====
